---------------------------- MODULE Spec2Model ----------------------------
(***************************************************************************)
(* A state-machine model of src/main.js: the Input manager, the Player     *)
(* physics (Player.update), the Level (parse, updateHazards, collide), the *)
(* level generator and the Game session object with its frame loop.        *)
(*                                                                         *)
(* Numbers.  The program computes positions, velocities and timers in      *)
(* IEEE doubles.  The model keeps them as integers in hundredths           *)
(* (Fx(1) = 100 stands for 1.0): every additive constant of the program    *)
(* (0.4, 0.45, 5.5, 8.1, 13.5, ...) is exact in that unit, and the two     *)
(* multiplicative decays (0.8 and 0.98) truncate toward zero to the        *)
(* nearest hundredth.  Wall-clock time is in whole milliseconds.           *)
(*                                                                         *)
(* Not modelled: drawing, the DOM overlays, the camera (it needs the       *)
(* canvas size, which is not in the source, and nothing reads it back)     *)
(* and the skin shop buttons.                                              *)
(***************************************************************************)
EXTENDS Integers, Sequences, FiniteSets, TLC

Fx(n) == 100 * n

Abs(v) == IF v < 0 THEN -v ELSE v

Min(a, b) == IF a < b THEN a ELSE b

\* v * num / den, truncated toward zero (the fixed-point image of `v *= 0.8`)
MulFrac(v, num, den) ==
    IF v >= 0 THEN (v * num) \div den ELSE -(((-v) * num) \div den)

-----------------------------------------------------------------------------
(* Program constants *)

tileSize == Fx(40)
totalLevels == 50
genHeight == 12
genWidth == 40
playerWidth == Fx(24)
baseHeight == Fx(40)
acc == 40
maxSpeed == 550
jumpForce == Fx(9)
gravity == 45
slideDuration == Fx(15)
skinCount == 6

-----------------------------------------------------------------------------
(* Game.generateLevel: the map is a 2D array of one-character strings,     *)
(* rows 0..height-1, columns 0..width-1, written in the order of the code  *)
(* so that a later marker overwrites an earlier one.                       *)

Put(map, r, c, ch) == [map EXCEPT ![r][c] = ch]

RECURSIVE genHazards(_, _, _, _)
genHazards(map, index, h, hazardCount) ==
    IF h >= hazardCount THEN map
    ELSE LET col0 == ((index * 7 + h * 11) % (genWidth - 4)) + 2
             col  == IF col0 = genWidth - 2
                       THEN ((col0 + 5) % (genWidth - 4)) + 2
                       ELSE col0
         IN genHazards(Put(map, genHeight - 2, col, "S"), index, h + 1, hazardCount)

RECURSIVE genBreakables(_, _, _, _)
genBreakables(map, index, b, breakCount) ==
    IF b >= breakCount THEN map
    ELSE LET col == ((index * 5 + b * 13) % (genWidth - 6)) + 3
         IN genBreakables(Put(map, genHeight - 3, col, "X"), index, b + 1, breakCount)

RECURSIVE genCoins(_, _, _, _)
genCoins(map, index, c, coinCount) ==
    IF c >= coinCount THEN map
    ELSE LET col == ((index * 3 + c * 13) % (genWidth - 6)) + 3
         IN genCoins(Put(map, genHeight - 4, col, "C"), index, c + 1, coinCount)

RECURSIVE genPlatforms(_, _, _, _)
genPlatforms(map, index, p, platformCount) ==
    IF p >= platformCount THEN map
    ELSE LET col == ((index * 6 + p * 12) % (genWidth - 10)) + 5
             m4  == Put(Put(Put(Put(map, genHeight - 5, col, "#"),
                                genHeight - 5, col + 1, "#"),
                            genHeight - 5, col + 2, "#"),
                        genHeight - 5, col + 3, "#")
         IN genPlatforms(m4, index, p + 1, platformCount)

\* genMoving with the column formula of the coins: the marker of the moving
\* hazard lands on the first coin
RECURSIVE genMovingOnCoin(_, _, _, _)
genMovingOnCoin(map, index, mh, movingCount) ==
    IF mh >= movingCount THEN map
    ELSE LET col == ((index * 3 + mh * 13) % (genWidth - 6)) + 3
         IN genMovingOnCoin(Put(map, genHeight - 4, col, "H"), index, mh + 1, movingCount)

RECURSIVE genMoving(_, _, _, _)
genMoving(map, index, mh, movingCount) ==
    IF mh >= movingCount THEN map
    ELSE LET col == ((index * 4 + mh * 17) % (genWidth - 10)) + 5
         IN genMoving(Put(map, genHeight - 4, col, "H"), index, mh + 1, movingCount)

generateLevel(index) ==
    LET blank   == [r \in 0..(genHeight - 1) |-> [c \in 0..(genWidth - 1) |-> " "]]
        ground  == [blank EXCEPT ![genHeight - 1] = [c \in 0..(genWidth - 1) |-> "#"]]
        spawn   == Put(ground, genHeight - 2, 1, "P")
        flag    == Put(spawn, genHeight - 2, genWidth - 2, "F")
        hazards == genHazards(flag, index, 0, 2 + (index \div 10))
        bounce  == IF index % 3 = 0
                     THEN Put(hazards, genHeight - 2, genWidth \div 2, "B")
                     ELSE hazards
        breaks  == genBreakables(bounce, index, 0, index % 3)
        coined  == genCoins(breaks, index, 0, 3)
        plats   == genPlatforms(coined, index, 0, 2 + (index % 3))
    IN genMoving(plats, index, 0, index % 2)

\* Game.buildLevels: levels[i] = generateLevel(i), built once in init
levels == [i \in 0..(totalLevels - 1) |-> generateLevel(i)]

-----------------------------------------------------------------------------
(* class Level *)

NoLevel == [none |-> TRUE]

\* Level.parse, the body of the inner loop at cell (x, y).  rnd holds the
\* two Math.random() results a moving hazard draws: its speed
\* 2 + Math.random() and its direction.
parseCell(lv, x, y, rnd) ==
    LET ch == lv.map[y][x]
    IN IF ch = "P" THEN
           [lv EXCEPT !.spawnX = x * tileSize,
                      !.spawnY = y * tileSize,
                      !.map[y][x] = " "]
       ELSE IF ch = "C" THEN
           [lv EXCEPT !.coins = Append(@, [x |-> x * tileSize + tileSize \div 2,
                                           y |-> y * tileSize + tileSize \div 2,
                                           collected |-> FALSE]),
                      !.map[y][x] = " "]
       ELSE IF ch = "H" THEN
           [lv EXCEPT !.hazards = Append(@, [baseX |-> x * tileSize,
                                             y |-> y * tileSize,
                                             x |-> x * tileSize,
                                             width |-> tileSize,
                                             height |-> tileSize,
                                             range |-> tileSize * 3,
                                             dir |-> rnd.dir,
                                             speed |-> rnd.speed]),
                      !.map[y][x] = " "]
       ELSE lv

\* for (x = from; x < cols; x++)
RECURSIVE parseRow(_, _, _, _)
parseRow(lv, x, y, rnd) ==
    IF x >= lv.cols THEN lv
    ELSE parseRow(parseCell(lv, x, y, rnd), x + 1, y, rnd)

\* Level.parse: for (y = from; y < rows; y++)
RECURSIVE parse(_, _, _)
parse(lv, y, rnd) ==
    IF y >= lv.rows THEN lv
    ELSE parse(parseRow(lv, 0, y, rnd), y + 1, rnd)

\* new Level(mapArray) with the draws rnd
constructLevel(mapArray, rnd) ==
    parse([map |-> mapArray,
           rows |-> Cardinality(DOMAIN mapArray),
           cols |-> Cardinality(DOMAIN mapArray[0]),
           spawnX |-> 0, spawnY |-> 0,
           coins |-> << >>, hazards |-> << >>], 0, rnd)

\* new Level(levels[idx]) for each idx, evaluated once with a fixed draw;
\* the draws of a construction only fill the dir and speed of its hazards
parsedLevels ==
    [idx \in 0..(totalLevels - 1) |->
        constructLevel(levels[idx], [speed |-> Fx(2), dir |-> 1])]

\* new Level(this.levels[idx]) with the draws rnd
NewLevel(idx, rnd) ==
    [parsedLevels[idx] EXCEPT
        !.hazards = [k \in DOMAIN @ |-> [@[k] EXCEPT !.dir = rnd.dir,
                                                     !.speed = rnd.speed]]]

\* updateHazard without the clamp: the direction flips, the position is kept
updateHazardUnclamped(hz) ==
    LET nx == hz.x + hz.dir * hz.speed
    IN IF nx < hz.baseX - hz.range \/ nx > hz.baseX + hz.range
         THEN [hz EXCEPT !.x = nx, !.dir = -hz.dir]
         ELSE [hz EXCEPT !.x = nx]

\* Level.updateHazards, one hazard
updateHazard(hz) ==
    LET nx == hz.x + hz.dir * hz.speed
    IN IF nx < hz.baseX - hz.range
         THEN [hz EXCEPT !.x = hz.baseX - hz.range, !.dir = -hz.dir]
       ELSE IF nx > hz.baseX + hz.range
         THEN [hz EXCEPT !.x = hz.baseX + hz.range, !.dir = -hz.dir]
       ELSE [hz EXCEPT !.x = nx]

updateHazards(lv) ==
    [lv EXCEPT !.hazards = [i \in DOMAIN lv.hazards |-> updateHazard(lv.hazards[i])]]

isSolid(ch) == ch = "#" \/ ch = "X" \/ ch = "B"

\* checkTile with a breakable tile breaking under any falling player,
\* diving or not
checkTileBreaksUndived(c, lv, pl, tx, ty, horizontal) ==
    IF ty < 0 \/ ty >= lv.rows \/ tx < 0 \/ tx >= lv.cols THEN c
    ELSE LET ch    == c.map[ty][tx]
             tileX == tx * tileSize
             tileY == ty * tileSize
         IN IF isSolid(ch) THEN
                IF ch = "X" /\ c.velY > 0 THEN
                    [c EXCEPT !.map[ty][tx] = " "]
                ELSE IF horizontal THEN
                    IF c.velX > 0 THEN
                        [c EXCEPT !.px = tileX - pl.width, !.velX = 0,
                                  !.onWall = TRUE, !.wallDir = 1]
                    ELSE IF c.velX < 0 THEN
                        [c EXCEPT !.px = tileX + tileSize, !.velX = 0,
                                  !.onWall = TRUE, !.wallDir = -1]
                    ELSE c
                ELSE
                    LET c1 == IF c.velY > 0 THEN
                                  [c EXCEPT !.py = tileY - pl.height, !.velY = 0,
                                            !.onGround = TRUE]
                              ELSE IF c.velY < 0 THEN
                                  [c EXCEPT !.py = tileY + tileSize, !.velY = 0]
                              ELSE c
                    IN IF ch = "B" /\ c1.velY > 0
                         THEN [c1 EXCEPT !.bounce = TRUE]
                         ELSE c1
            ELSE IF ch = "S" THEN [c EXCEPT !.die = TRUE]
            ELSE IF ch = "F" THEN [c EXCEPT !.win = TRUE]
            ELSE c

\* The helper checkTile of Level.collide.  c carries what the closure
\* reads and writes: px, py, the flags, the player's velX and velY (which
\* collide zeroes in place) and the level's map (a broken tile).
checkTile(c, lv, pl, tx, ty, horizontal) ==
    IF ty < 0 \/ ty >= lv.rows \/ tx < 0 \/ tx >= lv.cols THEN c
    ELSE LET ch    == c.map[ty][tx]
             tileX == tx * tileSize
             tileY == ty * tileSize
         IN IF isSolid(ch) THEN
                IF ch = "X" /\ pl.dive /\ c.velY > 0 THEN
                    [c EXCEPT !.map[ty][tx] = " "]
                ELSE IF horizontal THEN
                    IF c.velX > 0 THEN
                        [c EXCEPT !.px = tileX - pl.width, !.velX = 0,
                                  !.onWall = TRUE, !.wallDir = 1]
                    ELSE IF c.velX < 0 THEN
                        [c EXCEPT !.px = tileX + tileSize, !.velX = 0,
                                  !.onWall = TRUE, !.wallDir = -1]
                    ELSE c
                ELSE
                    LET c1 == IF c.velY > 0 THEN
                                  [c EXCEPT !.py = tileY - pl.height, !.velY = 0,
                                            !.onGround = TRUE]
                              ELSE IF c.velY < 0 THEN
                                  [c EXCEPT !.py = tileY + tileSize, !.velY = 0]
                              ELSE c
                    IN IF ch = "B" /\ c1.velY > 0
                         THEN [c1 EXCEPT !.bounce = TRUE]
                         ELSE c1
            ELSE IF ch = "S" THEN [c EXCEPT !.die = TRUE]
            ELSE IF ch = "F" THEN [c EXCEPT !.win = TRUE]
            ELSE c

\* for (row = from; row <= to; row++) checkTile(col, row, true)
RECURSIVE checkRows(_, _, _, _, _, _)
checkRows(c, lv, pl, col, from, to) ==
    IF from > to THEN c
    ELSE checkRows(checkTile(c, lv, pl, col, from, TRUE), lv, pl, col, from + 1, to)

\* for (col = from; col <= to; col++) checkTile(col, row, false)
RECURSIVE checkCols(_, _, _, _, _, _)
checkCols(c, lv, pl, row, from, to) ==
    IF from > to THEN c
    ELSE checkCols(checkTile(c, lv, pl, from, row, FALSE), lv, pl, row, from + 1, to)

\* Level.collide, the result object and the player's velocity on entry
collideStart(lv, pl, nextX, nextY) ==
    [px |-> nextX, py |-> nextY, velX |-> pl.velX, velY |-> pl.velY,
     map |-> lv.map, onGround |-> FALSE, onWall |-> FALSE,
     wallDir |-> 0, bounce |-> FALSE, die |-> FALSE, win |-> FALSE]

\* Level.collide, horizontal collisions: the column ahead, rows top..bottom
\* of the proposed position
collideHorizontal(c, lv, pl) ==
    IF c.velX # 0
      THEN checkRows(c, lv, pl,
                     IF c.velX > 0 THEN (c.px + pl.width) \div tileSize
                                   ELSE c.px \div tileSize,
                     c.py \div tileSize,
                     (c.py + pl.height - Fx(1)) \div tileSize)
      ELSE c

\* Level.collide, vertical collisions: the row below or above, columns
\* left..right of the position the horizontal pass left
collideVertical(c, lv, pl) ==
    IF c.velY # 0
      THEN checkCols(c, lv, pl,
                     IF c.velY > 0 THEN (c.py + pl.height) \div tileSize
                                   ELSE c.py \div tileSize,
                     c.px \div tileSize,
                     (c.px + pl.width - Fx(1)) \div tileSize)
      ELSE c

\* Level.collide, coins: the player's centre is within half a tile of the
\* coin's centre on both axes
coinHit(c, pl, coin) ==
    /\ ~coin.collected
    /\ Abs(c.px + pl.width \div 2 - coin.x) < tileSize \div 2
    /\ Abs(c.py + pl.height \div 2 - coin.y) < tileSize \div 2

\* Level.collide, moving hazards: bounding boxes overlap
hazardHit(c, pl, hz) ==
    /\ c.px < hz.x + hz.width
    /\ c.px + pl.width > hz.x
    /\ c.py < hz.y + hz.height
    /\ c.py + pl.height > hz.y

\* collideFinish with the collected flag of a coin following the overlap:
\* a coin the player has left is no longer collected
collideFinishOverlap(c, lv, pl) ==
    [x |-> c.px, y |-> c.py, onGround |-> c.onGround, onWall |-> c.onWall,
     wallDir |-> c.wallDir, bounce |-> c.bounce,
     die |-> (c.die \/ \E i \in DOMAIN lv.hazards : hazardHit(c, pl, lv.hazards[i])),
     win |-> c.win,
     collectedCoin |-> (\E i \in DOMAIN lv.coins : coinHit(c, pl, lv.coins[i])),
     velX |-> c.velX, velY |-> c.velY,
     level |-> [lv EXCEPT
                  !.map = c.map,
                  !.coins = [i \in DOMAIN lv.coins |->
                               [lv.coins[i] EXCEPT !.collected =
                                   coinHit(c, pl, [lv.coins[i] EXCEPT !.collected = FALSE])]]]]

\* Level.collide, coins and hazards, and the result returned
collideFinish(c, lv, pl) ==
    [x |-> c.px, y |-> c.py, onGround |-> c.onGround, onWall |-> c.onWall,
     wallDir |-> c.wallDir, bounce |-> c.bounce,
     die |-> (c.die \/ \E i \in DOMAIN lv.hazards : hazardHit(c, pl, lv.hazards[i])),
     win |-> c.win,
     collectedCoin |-> (\E i \in DOMAIN lv.coins : coinHit(c, pl, lv.coins[i])),
     velX |-> c.velX, velY |-> c.velY,
     level |-> [lv EXCEPT
                  !.map = c.map,
                  !.coins = [i \in DOMAIN lv.coins |->
                               IF coinHit(c, pl, lv.coins[i])
                                 THEN [lv.coins[i] EXCEPT !.collected = TRUE]
                                 ELSE lv.coins[i]]]]

\* Level.collide(player, nextX, nextY): the corrected position, the flags,
\* the player's velocity after the zeroing, and the level after the tile
\* breaks and coin pickups.
collide(lv, pl, nextX, nextY) ==
    collideFinish(
        collideVertical(
            collideHorizontal(collideStart(lv, pl, nextX, nextY), lv, pl),
            lv, pl),
        lv, pl)

-----------------------------------------------------------------------------
(* class Player *)

NoPlayer == [none |-> TRUE]

\* new Player(spawnX, spawnY, skinColor); acc, maxSpeed, jumpForce, gravity
\* and slideDuration never change and are the constants above
NewPlayer(spawnX, spawnY, skinColor) ==
    [x |-> spawnX, y |-> spawnY, width |-> playerWidth, height |-> baseHeight,
     baseHeight |-> baseHeight, color |-> skinColor, velX |-> 0, velY |-> 0,
     onGround |-> FALSE, onWall |-> FALSE, wallDir |-> 0, sliding |-> FALSE,
     slideTimer |-> 0, dive |-> FALSE, coyoteTimer |-> 0, jumpBuffer |-> 0]

\* lines 143-156: horizontal input, friction, speed cap
horizontal(pl, inp) ==
    LET move == (IF inp.left THEN -1 ELSE 0) + (IF inp.right THEN 1 ELSE 0)
        v1   == pl.velX + move * acc
        v2   == IF move = 0
                  THEN LET f == MulFrac(v1, 4, 5) IN IF Abs(f) < 5 THEN 0 ELSE f
                  ELSE v1
        v3   == IF v2 > maxSpeed THEN maxSpeed ELSE v2
    IN [pl EXCEPT !.velX = IF v3 < -maxSpeed THEN -maxSpeed ELSE v3]

\* lines 158-167: initiate slide
slideStart(pl, inp) ==
    IF pl.onGround /\ inp.down /\ ~pl.sliding /\ Abs(pl.velX) > Fx(2) THEN
        [pl EXCEPT !.sliding = TRUE,
                   !.slideTimer = slideDuration,
                   !.height = pl.baseHeight \div 2,
                   !.y = @ + (pl.baseHeight - pl.baseHeight \div 2),
                   !.velX = @ + (IF @ > 0 THEN Fx(1) ELSE -Fx(1))]
    ELSE pl

\* slideStep ending a slide without restoring the height
slideStepStaysLow(pl, inp, dt) ==
    IF pl.sliding THEN
        LET q == [pl EXCEPT !.slideTimer = @ - dt, !.velX = MulFrac(@, 49, 50)]
        IN IF q.slideTimer <= 0 \/ ~inp.down
             THEN [q EXCEPT !.sliding = FALSE]
             ELSE q
    ELSE pl

\* lines 168-180: sliding state
slideStep(pl, inp, dt) ==
    IF pl.sliding THEN
        LET q == [pl EXCEPT !.slideTimer = @ - dt, !.velX = MulFrac(@, 49, 50)]
        IN IF q.slideTimer <= 0 \/ ~inp.down
             THEN [q EXCEPT !.sliding = FALSE,
                            !.height = q.baseHeight,
                            !.y = @ - (q.baseHeight - q.height)]
             ELSE q
    ELSE pl

\* the dive without the test of the dive flag: velY is forced on every
\* airborne update with down held
diveStartRepeats(pl, inp) ==
    IF ~pl.onGround /\ inp.down
      THEN [pl EXCEPT !.dive = TRUE, !.velY = Fx(12)]
      ELSE pl

\* lines 182-186: dive
diveStart(pl, inp) ==
    IF ~pl.onGround /\ inp.down /\ ~pl.dive
      THEN [pl EXCEPT !.dive = TRUE, !.velY = Fx(12)]
      ELSE pl

\* lines 188-200: coyote timer and jump buffer (consumeJump returned jump)
timers(pl, jump, dt) ==
    LET c == IF pl.onGround THEN Fx(6)
             ELSE IF pl.coyoteTimer > 0 THEN pl.coyoteTimer - dt
             ELSE pl.coyoteTimer
        b == IF jump THEN Fx(6)
             ELSE IF pl.jumpBuffer > 0 THEN pl.jumpBuffer - dt
             ELSE pl.jumpBuffer
    IN [pl EXCEPT !.coyoteTimer = c, !.jumpBuffer = b]

\* jumpStep with the normal jump leaving the coyote timer running
jumpStepKeepsCoyote(pl) ==
    IF pl.jumpBuffer > 0 THEN
        IF pl.coyoteTimer > 0 THEN
            [pl EXCEPT !.velY = -jumpForce, !.onGround = FALSE,
                       !.jumpBuffer = 0]
        ELSE IF pl.onWall THEN
            [pl EXCEPT !.velY = -((jumpForce * 9) \div 10),
                       !.velX = -pl.wallDir * ((maxSpeed * 8) \div 10),
                       !.onWall = FALSE, !.jumpBuffer = 0]
        ELSE pl
    ELSE pl

\* jumpStep with the wall jump pushing towards the wall
jumpStepIntoWall(pl) ==
    IF pl.jumpBuffer > 0 THEN
        IF pl.coyoteTimer > 0 THEN
            [pl EXCEPT !.velY = -jumpForce, !.onGround = FALSE,
                       !.coyoteTimer = 0, !.jumpBuffer = 0]
        ELSE IF pl.onWall THEN
            [pl EXCEPT !.velY = -((jumpForce * 9) \div 10),
                       !.velX = pl.wallDir * ((maxSpeed * 8) \div 10),
                       !.onWall = FALSE, !.jumpBuffer = 0]
        ELSE pl
    ELSE pl

\* lines 202-217: normal jump, else wall jump
jumpStep(pl) ==
    IF pl.jumpBuffer > 0 THEN
        IF pl.coyoteTimer > 0 THEN
            [pl EXCEPT !.velY = -jumpForce, !.onGround = FALSE,
                       !.coyoteTimer = 0, !.jumpBuffer = 0]
        ELSE IF pl.onWall THEN
            [pl EXCEPT !.velY = -((jumpForce * 9) \div 10),
                       !.velX = -pl.wallDir * ((maxSpeed * 8) \div 10),
                       !.onWall = FALSE, !.jumpBuffer = 0]
        ELSE pl
    ELSE pl

\* gravity without the fall-speed cap
applyGravityUncapped(pl) == [pl EXCEPT !.velY = @ + gravity]

\* lines 219-221: gravity and the fall-speed cap
applyGravity(pl) ==
    LET v == pl.velY + gravity
    IN [pl EXCEPT !.velY = IF v > Fx(15) THEN Fx(15) ELSE v]

\* lines 234-238: bounce pad interaction
bounceStep(pl, coll) ==
    IF coll.bounce
      THEN [pl EXCEPT !.velY = -((jumpForce * 3) \div 2), !.dive = FALSE]
      ELSE pl

\* signals with the win tested before the death
signalsWinFirst(pl, coll) ==
    IF coll.win THEN [player |-> pl, level |-> coll.level, signal |-> "win",
                      died |-> coll.die, won |-> coll.win]
    ELSE IF coll.die THEN [player |-> pl, level |-> coll.level, signal |-> "die",
                           died |-> coll.die, won |-> coll.win]
    ELSE [player |-> IF pl.onGround THEN [pl EXCEPT !.dive = FALSE] ELSE pl,
          level  |-> coll.level,
          signal |-> IF coll.collectedCoin THEN "coin" ELSE "none",
          died |-> coll.die, won |-> coll.win]

\* lines 239-254: the early returns on die and win, the coin credit and the
\* dive reset; what the tick asks of Game is signal "die" (Game.resetLevel),
\* "win" (Game.completeLevel), "coin" (Game.addCoin) or "none".  The two
\* early returns skip the coin credit and the dive reset.  died and won
\* are the flags of the collision result.
signals(pl, coll) ==
    IF coll.die THEN [player |-> pl, level |-> coll.level, signal |-> "die",
                      died |-> coll.die, won |-> coll.win]
    ELSE IF coll.win THEN [player |-> pl, level |-> coll.level, signal |-> "win",
                           died |-> coll.die, won |-> coll.win]
    ELSE [player |-> IF pl.onGround THEN [pl EXCEPT !.dive = FALSE] ELSE pl,
          level  |-> coll.level,
          signal |-> IF coll.collectedCoin THEN "coin" ELSE "none",
          died |-> coll.die, won |-> coll.win]

\* lines 228-238: the collision result copied into the player, then the
\* bounce pad
applyCollision(pl, coll) ==
    signals(bounceStep([pl EXCEPT !.x = coll.x, !.y = coll.y,
                                  !.velX = coll.velX, !.velY = coll.velY,
                                  !.onGround = coll.onGround,
                                  !.onWall = coll.onWall,
                                  !.wallDir = coll.wallDir], coll),
            coll)

\* lines 223-227: the proposed position handed to level.collide
moveAndCollide(pl, lv) ==
    applyCollision(pl, collide(lv, pl, pl.x + pl.velX, pl.y + pl.velY))

\* lines 143-200: the player when Player.update reaches the jump
beforeJump(pl, inp, dt) ==
    timers(diveStart(slideStep(slideStart(horizontal(pl, inp), inp), inp, dt), inp),
           inp.jumpRequested, dt)

\* Player.update(dt, level) up to its calls into Game: the player and the
\* level after the tick and the signal
update(pl, lv, inp, dt) ==
    moveAndCollide(applyGravity(jumpStep(beforeJump(pl, inp, dt))), lv)

-----------------------------------------------------------------------------
(* const Game.  A Game value is the record of the object's fields; the     *)
(* methods are operators from the record to the record after the call.     *)
(* Times are milliseconds (currentTime, finish and best times too: the     *)
(* program's seconds times 1000).                                          *)

\* Game.buildSkins before the saved flags are merged: only skin 0 unlocked
defaultSkins == [idx \in 0..(skinCount - 1) |-> idx = 0]

\* the object literal, lines 572-588 (skins is [] until buildSkins)
GameLiteral ==
    [state |-> "menu", currentLevelIndex |-> 0, level |-> NoLevel,
     player |-> NoPlayer, coins |-> 0, sessionCoins |-> 0,
     skins |-> << >>, selectedSkinIndex |-> 0, bestTimes |-> << >>,
     levelStartTime |-> 0, currentTime |-> 0, lastFrame |-> 0,
     savedData |-> [none |-> TRUE]]

\* this.level / this.player is not null
HasLevel(g) == "none" \notin DOMAIN g.level

HasPlayer(g) == "none" \notin DOMAIN g.player

\* localStorage.getItem('minimalPlatformerSave'): no item, a text that
\* JSON.parse rejects, or the text of a record.  JSON.stringify followed by
\* JSON.parse gives back the same coins, flags, index and best times (the
\* integer keys of bestTimes become strings, which indexing by a number
\* reads alike), so a saved text is kept as its record.
NoItem == [kind |-> "absent"]

BadItem == [kind |-> "unparseable"]

Item(data) == [kind |-> "record", data |-> data]

\* Game.saveProgress: the item written
saveProgress(g) ==
    Item([coins |-> g.coins, skins |-> g.skins,
          selectedSkinIndex |-> g.selectedSkinIndex, bestTimes |-> g.bestTimes])

\* Game.loadProgress: threw is JSON.parse's SyntaxError
loadProgress(g, saved) ==
    IF saved.kind = "absent" THEN
        [threw |-> FALSE,
         game |-> [g EXCEPT !.savedData = [none |-> TRUE], !.coins = 0,
                            !.bestTimes = << >>]]
    ELSE IF saved.kind = "unparseable" THEN [threw |-> TRUE, game |-> g]
    ELSE [threw |-> FALSE,
          game |-> [g EXCEPT !.savedData = saved.data, !.coins = saved.data.coins,
                             !.bestTimes = saved.data.bestTimes]]

\* Game.buildSkins
buildSkins(g) ==
    IF "none" \in DOMAIN g.savedData THEN [g EXCEPT !.skins = defaultSkins]
    ELSE [g EXCEPT !.skins = [idx \in 0..(skinCount - 1) |->
                                 defaultSkins[idx] \/ g.savedData.skins[idx]],
                   !.selectedSkinIndex = g.savedData.selectedSkinIndex]

\* Game.getSelectedSkinColor: the six colours are distinct, a colour is
\* named by its index
getSelectedSkinColor(g) == g.selectedSkinIndex

\* Game.showMenu
showMenu(g) == [g EXCEPT !.state = "menu"]

\* a level start that carries the per-attempt coin count over
startGameKeepSession(g, levelIndex, rnd, now) ==
    LET idx == IF levelIndex < 0 \/ levelIndex >= totalLevels THEN 0 ELSE levelIndex
        lv  == NewLevel(idx, rnd)
    IN [g EXCEPT !.currentLevelIndex = idx,
                 !.level = lv,
                 !.player = NewPlayer(lv.spawnX, lv.spawnY - tileSize,
                                      getSelectedSkinColor(g)),
                 !.levelStartTime = now,
                 !.currentTime = 0,
                 !.state = "playing"]

\* a level start that keeps the Level object when the index is unchanged
startGameReuseLevel(g, levelIndex, rnd, now) ==
    LET idx == IF levelIndex < 0 \/ levelIndex >= totalLevels THEN 0 ELSE levelIndex
        lv  == IF HasLevel(g) /\ idx = g.currentLevelIndex
                 THEN g.level ELSE NewLevel(idx, rnd)
    IN [g EXCEPT !.currentLevelIndex = idx,
                 !.level = lv,
                 !.player = NewPlayer(lv.spawnX, lv.spawnY - tileSize,
                                      getSelectedSkinColor(g)),
                 !.levelStartTime = now,
                 !.currentTime = 0,
                 !.sessionCoins = 0,
                 !.state = "playing"]

\* startGame taking an index outside 0..49 to the nearest level
startGameNearest(g, levelIndex, rnd, now) ==
    LET idx == IF levelIndex < 0 THEN 0
               ELSE IF levelIndex >= totalLevels THEN totalLevels - 1
               ELSE levelIndex
        lv  == NewLevel(idx, rnd)
    IN [g EXCEPT !.currentLevelIndex = idx,
                 !.level = lv,
                 !.player = NewPlayer(lv.spawnX, lv.spawnY - tileSize,
                                      getSelectedSkinColor(g)),
                 !.levelStartTime = now,
                 !.currentTime = 0,
                 !.sessionCoins = 0,
                 !.state = "playing"]

\* Game.startGame(levelIndex); rnd are the Math.random() results of the new
\* Level, now is performance.now()
startGame(g, levelIndex, rnd, now) ==
    LET idx == IF levelIndex < 0 \/ levelIndex >= totalLevels THEN 0 ELSE levelIndex
        lv  == NewLevel(idx, rnd)
    IN [g EXCEPT !.currentLevelIndex = idx,
                 !.level = lv,
                 !.player = NewPlayer(lv.spawnX, lv.spawnY - tileSize,
                                      getSelectedSkinColor(g)),
                 !.levelStartTime = now,
                 !.currentTime = 0,
                 !.sessionCoins = 0,
                 !.state = "playing"]

\* Game.resetLevel
resetLevel(g, rnd, now) == startGame(g, g.currentLevelIndex, rnd, now)

\* Game.exitToMenu
exitToMenu(g) == showMenu(g)

\* Game.nextLevel
nextLevel(g, rnd, now) ==
    LET next == g.currentLevelIndex + 1
    IN IF next < totalLevels THEN startGame(g, next, rnd, now) ELSE exitToMenu(g)

\* Game.togglePause(forceOff): forceOff is "null" (the default), "true" or
\* "false"
togglePause(g, forceOff, now) ==
    IF g.state = "playing" /\ (forceOff = "null" \/ forceOff = "false") THEN
        [g EXCEPT !.state = "paused"]
    ELSE IF g.state = "paused" \/ forceOff = "true" THEN
        [g EXCEPT !.state = "playing", !.levelStartTime = now - g.currentTime]
    ELSE g

\* Game.showLevelSelect
showLevelSelect(g) == [g EXCEPT !.state = "levelSelect"]

\* Game.showSkins
showSkins(g) == [g EXCEPT !.state = "skins"]

\* a coin counted twice
addCoinTwice(g) == [g EXCEPT !.sessionCoins = @ + 2]

\* Game.addCoin
addCoin(g) == [g EXCEPT !.sessionCoins = @ + 1]

\* completeLevel storing every finish time as the best time
completeLevelLatest(g, now) ==
    [g EXCEPT !.state = "complete",
              !.bestTimes = (g.currentLevelIndex :> (now - g.levelStartTime)) @@ g.bestTimes,
              !.coins = @ + g.sessionCoins]

\* Game.completeLevel up to saveProgress
completeLevel(g, now) ==
    LET finishTime == now - g.levelStartTime
        levelIndex == g.currentLevelIndex
        better     == levelIndex \notin DOMAIN g.bestTimes
                        \/ finishTime < g.bestTimes[levelIndex]
    IN [g EXCEPT !.state = "complete",
                 !.bestTimes = IF better
                                 THEN (levelIndex :> finishTime) @@ g.bestTimes
                                 ELSE g.bestTimes,
                 !.coins = @ + g.sessionCoins]

\* dt of Game.loop: Math.min(33, dtMs) / 16.6667, in hundredths
frameDt(dtMs) == (Min(33, dtMs) * 1000000) \div 166667

\* Game.loop after Player.update returned r: what the callbacks the tick
\* made into Game (resetLevel, completeLevel, addCoin) leave
afterUpdate(g, r, item, now) ==
    IF r.signal = "die" THEN
        [game |-> [g EXCEPT !.player = r.player, !.level = r.level],
         item |-> item, threw |-> FALSE, consumed |-> TRUE, reset |-> TRUE,
         signal |-> "die", both |-> r.died /\ r.won]
    ELSE IF r.signal = "win" THEN
        LET g4 == completeLevel([g EXCEPT !.player = r.player,
                                          !.level = r.level], now)
        IN [game |-> g4, item |-> saveProgress(g4), threw |-> FALSE,
            consumed |-> TRUE, reset |-> FALSE, signal |-> "win",
            both |-> r.died /\ r.won]
    ELSE
        [game |-> IF r.signal = "coin"
                    THEN addCoin([g EXCEPT !.player = r.player, !.level = r.level])
                    ELSE [g EXCEPT !.player = r.player, !.level = r.level],
         item |-> item, threw |-> FALSE, consumed |-> TRUE, reset |-> FALSE,
         signal |-> r.signal, both |-> r.died /\ r.won]

\* the update block of Game.loop running in state paused as well
updatesWhilePaused(state) == state \in {"playing", "paused"}

\* Game.loop: the condition of the update block
updates(state) == state = "playing"

\* Game.loop(now) up to draw: the Game record, the localStorage item,
\* whether the frame threw before requestAnimationFrame was reached (a
\* null level in state playing), whether Player.update ran (and consumed
\* the jump request) and whether it called Game.resetLevel, which the
\* frame then completes with the new Level's random draws.  signal is what
\* the tick raised: "die", "win", "coin", "none", or "idle" when no world
\* tick ran; both, that its collision raised die and win together.
loop(g, inp, item, now) ==
    IF updates(g.state) THEN
        IF ~HasLevel(g) THEN
            [game |-> [g EXCEPT !.lastFrame = now,
                                !.currentTime = now - g.levelStartTime],
             item |-> item, threw |-> TRUE, consumed |-> FALSE,
             reset |-> FALSE, signal |-> "idle", both |-> FALSE]
        ELSE
            afterUpdate([g EXCEPT !.lastFrame = now,
                                  !.currentTime = now - g.levelStartTime],
                        update(g.player, updateHazards(g.level), inp,
                               frameDt(now - g.lastFrame)),
                        item, now)
    ELSE [game |-> [g EXCEPT !.lastFrame = now], item |-> item,
          threw |-> FALSE, consumed |-> FALSE, reset |-> FALSE,
          signal |-> "idle", both |-> FALSE]

-----------------------------------------------------------------------------
(* The environment: the keyboard, the UI shell that calls the session      *)
(* lifecycle methods, the browser's clock and frame callbacks, and the     *)
(* bounds that keep a run finite.                                          *)

\* events per run outside an input schedule: key events, lifecycle calls,
\* late frames and off-frame waits; a schedule counts as one event
MaxEvents == 3
\* frames in state playing outside an input schedule, per run
MaxFrames == 6
\* frames in any other state, per run
MaxIdleFrames == 1

\* milliseconds between two frames: the nominal 60 Hz interval, and a frame
\* that arrives late enough for the cap of 33 ms to act; partial: the time
\* after a frame at which a key event may arrive
FrameMs == [nominal |-> 17, stalled |-> 40, partial |-> 5]

\* the level indices the shell starts: levels 0..2, level 5 (a spike
\* beside the flag), level 8 (a breakable tile with nothing above it), the
\* last level and two outside 0..49
StartIndices == {-1, 0, 1, 2, 5, 8, 49, 50}

\* Math.random() in Level.parse: the speed 2 + Math.random() of a moving
\* hazard lies in [2, 3), its direction is -1 or 1
Draws == {[speed |-> Fx(2), dir |-> 1], [speed |-> 250, dir |-> -1]}

\* A level of the generator holds at most one 'H' (index % 2), so one draw
\* serves a Level, and a Level without 'H' draws nothing.
DrawsFor(idx) ==
    IF parsedLevels[idx].hazards # << >>
      THEN Draws
      ELSE {[speed |-> Fx(2), dir |-> 1]}

\* what localStorage may hold when the page loads
SavedItems ==
    {NoItem, BadItem,
     Item([coins |-> 25, skins |-> [idx \in 0..(skinCount - 1) |-> idx <= 1],
           selectedSkinIndex |-> 1, bestTimes |-> (0 :> 6000) @@ (1 :> 900)])}

VARIABLES
    Game,       \* the Game object
    Input,      \* the Input object: left, right, down, jumpRequested
    storage,    \* the localStorage item 'minimalPlatformerSave'
    clock,      \* performance.now(), ms
    boot,       \* "load": before Game.init; "failed": init threw; "ready"
    running,    \* a requestAnimationFrame callback for Game.loop is pending
    used,       \* how much of each bound the run has used
    sched,      \* the rest of the input schedule being played, if any
    hist        \* history: what the latest step did (see Quiet, Started, Ticked)

vars == <<Game, Input, storage, clock, boot, running, used, sched, hist>>

\* the tile grid of each level as Level.parse leaves it: the markers of the
\* spawn, the coins and the moving hazards blanked
templateMaps ==
    [idx \in 0..(totalLevels - 1) |->
        [r \in 0..(genHeight - 1) |-> [c \in 0..(genWidth - 1) |->
            IF levels[idx][r][c] \in {"P", "C", "H"} THEN " "
                                                     ELSE levels[idx][r][c]]]]

\* a Level as the constructor leaves it: no tile broken, no coin collected
Pristine(lv, idx) ==
    /\ lv.map = templateMaps[idx]
    /\ \A i \in DOMAIN lv.coins : ~lv.coins[i].collected

\* the attempt in progress has broken a tile or collected a coin
Dirty(g) == HasLevel(g) /\ ~Pristine(g.level, g.currentLevelIndex)

\* hist.what: "quiet" for a step that neither started a level nor ran a
\* frame, "start" / "clamped" / "retry" / "next" for a lifecycle call that
\* started a level ("clamped": startLevel with an index outside 0..49), and
\* for a frame the signal of Game.loop.
\* hist.dirty: the Level discarded by the latest level start was Dirty.
\* hist.finished: a level was completed and none has been started since.
\* hist.played: the milliseconds spent in state playing since the level was
\* started (by a lifecycle call or by the reset of a death).
\* hist.slide: the slide under way, or the one the latest tick ended:
\* from, the player's bottom edge before the tick that started it; ticks,
\* the ticks it has lasted; grounded, the player was on the ground after
\* each of them; stalled, one of them was a late frame.
\* hist.dived: the dive has forced velY since the player was last on the
\* ground after a tick (or since the level was loaded).
\* hist.both: the collision of the latest frame raised die and win.
\* hist.since: the ticks since the latest tick that found the player on
\* the ground, 0 when the latest tick did, counted up to CoyoteTicks.
\* hist.jumped: a full jump has been made since a tick last found the
\* player on the ground.  hist.jumps: the full jumps made on this level,
\* counted up to 2.
NoSlide == [from |-> 0, ticks |-> 0, grounded |-> FALSE, stalled |-> FALSE]

\* the ticks the coyote timer lasts at the nominal frame interval
CoyoteTicks == Fx(6) \div frameDt(FrameMs.nominal) + 1

Quiet == hist' = [hist EXCEPT !.what = "quiet", !.dirty = FALSE]

Started(what) ==
    hist' = IF Game'.state = "playing" /\ Game'.currentTime = 0
              THEN [what |-> what, dirty |-> Dirty(Game), finished |-> FALSE,
                    played |-> 0, slide |-> NoSlide, dived |-> FALSE,
                    since |-> CoyoteTicks, jumped |-> FALSE, jumps |-> 0,
                    both |-> FALSE]
              ELSE [hist EXCEPT !.what = "quiet", !.dirty = FALSE]

\* hist.slide after a world tick from player pl to player to
SlideSeen(pl, to, late) ==
    IF ~pl.sliding /\ to.sliding
      THEN [from |-> pl.y + pl.height, ticks |-> 1,
            grounded |-> to.onGround, stalled |-> late]
    ELSE IF pl.sliding
      THEN [from |-> hist.slide.from, ticks |-> hist.slide.ticks + 1,
            grounded |-> hist.slide.grounded /\ to.onGround,
            stalled |-> hist.slide.stalled \/ late]
    ELSE NoSlide

\* the dive of an update of player pl takes effect (lines 182-186)
DiveForced(pl, inp) == diveStart(pl, inp) # pl

\* the update of player pl after dtMs milliseconds makes the normal jump
\* (lines 202-210)
FullJump(pl, inp, dtMs) ==
    \E p \in {beforeJump(pl, inp, frameDt(dtMs))} :
        jumpStep(p) # p /\ jumpStep(p).velY = -jumpForce

Ticked(r) ==
    hist' = [what |-> r.signal,
             dirty |-> r.reset /\ Dirty(r.game),
             finished |-> IF r.signal = "win" THEN TRUE
                          ELSE IF r.reset THEN FALSE ELSE hist.finished,
             played |-> IF r.reset THEN 0
                        ELSE IF Game.state = "playing"
                          THEN hist.played + (clock' - clock)
                        ELSE hist.played,
             slide |-> IF r.reset THEN NoSlide
                       ELSE IF r.signal \in {"none", "coin", "win"}
                         THEN SlideSeen(Game.player, r.game.player,
                                        clock' - Game.lastFrame # FrameMs.nominal)
                       ELSE hist.slide,
             dived |-> IF r.reset THEN FALSE
                       ELSE IF r.signal \in {"none", "coin", "win"}
                         THEN /\ ~r.game.player.onGround
                              /\ hist.dived \/ DiveForced(Game.player, Input)
                       ELSE hist.dived,
             since |-> IF r.reset THEN CoyoteTicks
                       ELSE IF r.signal \in {"none", "coin", "win"}
                         THEN IF Game.player.onGround THEN 0
                              ELSE Min(hist.since + 1, CoyoteTicks)
                       ELSE hist.since,
             jumped |-> IF r.reset THEN FALSE
                        ELSE IF r.signal \in {"none", "coin", "win"}
                          THEN \/ FullJump(Game.player, Input, clock' - Game.lastFrame)
                               \/ ~Game.player.onGround /\ hist.jumped
                        ELSE hist.jumped,
             jumps |-> IF r.reset THEN 0
                       ELSE IF /\ r.signal \in {"none", "coin", "win"}
                               /\ FullJump(Game.player, Input, clock' - Game.lastFrame)
                         THEN Min(hist.jumps + 1, 2)
                       ELSE hist.jumps,
             both |-> r.both]

NothingUsed == [events |-> 0, frames |-> 0, idle |-> 0]

Init ==
    /\ Game = GameLiteral
    /\ Input = [left |-> FALSE, right |-> FALSE, down |-> FALSE, jumpRequested |-> FALSE]
    /\ storage \in SavedItems
    /\ clock = 0
    /\ boot = "load"
    /\ running = FALSE
    /\ used = NothingUsed
    /\ sched = << >>
    /\ hist = [what |-> "quiet", dirty |-> FALSE, finished |-> FALSE,
               played |-> 0, slide |-> NoSlide, dived |-> FALSE,
                    since |-> CoyoteTicks, jumped |-> FALSE, jumps |-> 0,
                    both |-> FALSE]

\* the step of a schedule: a key event (n = 1) or n frames
Step(ev, key, n) == [ev |-> ev, key |-> key, n |-> n]

Advance(sc) ==
    IF Head(sc).n > 1 THEN <<[Head(sc) EXCEPT !.n = @ - 1]>> \o Tail(sc) ELSE Tail(sc)

\* a key event is the next step of the schedule, or within the bound
KeyAllowed(ev, key) ==
    /\ boot # "load"
    /\ IF sched # << >>
         THEN Head(sched).ev = ev /\ Head(sched).key = key
         ELSE used.events < MaxEvents

KeyUsed ==
    /\ sched' = IF sched # << >> THEN Advance(sched) ELSE sched
    /\ used' = IF sched # << >> THEN used ELSE [used EXCEPT !.events = @ + 1]

\* window load: Game.init.  Input.init runs first, so the key handlers are
\* attached even when loadProgress throws; the buttons and the first
\* Game.loop call are reached only when it does not.
GameInit ==
    /\ boot = "load"
    /\ LET ld == loadProgress(Game, storage)
       IN IF ld.threw
            THEN /\ boot' = "failed"
                 /\ Game' = ld.game
                 /\ running' = FALSE
            ELSE /\ boot' = "ready"
                 /\ Game' = [buildSkins(ld.game) EXCEPT !.lastFrame = clock]
                 /\ running' = TRUE
    /\ Quiet
    /\ UNCHANGED <<Input, storage, clock, used, sched>>

\* keydown of arrowleft/a, arrowright/d, arrowdown/s (a repeat of a held
\* key changes nothing)
KeyDown(key) ==
    /\ KeyAllowed("down", key)
    /\ ~Input[key]
    /\ Input' = [Input EXCEPT ![key] = TRUE]
    /\ KeyUsed
    /\ Quiet
    /\ UNCHANGED <<Game, storage, clock, boot, running>>

\* keyup of the same keys
KeyUp(key) ==
    /\ KeyAllowed("up", key)
    /\ Input[key]
    /\ Input' = [Input EXCEPT ![key] = FALSE]
    /\ KeyUsed
    /\ Quiet
    /\ UNCHANGED <<Game, storage, clock, boot, running>>

\* keydown of arrowup/w
KeyJump ==
    /\ KeyAllowed("jump", "up")
    /\ ~Input.jumpRequested
    /\ Input' = [Input EXCEPT !.jumpRequested = TRUE]
    /\ KeyUsed
    /\ Quiet
    /\ UNCHANGED <<Game, storage, clock, boot, running>>

\* keydown of p/escape: Game.togglePause()
KeyPause ==
    /\ KeyAllowed("pause", "p")
    /\ Game' = togglePause(Game, "null", clock)
    /\ KeyUsed
    /\ Quiet
    /\ UNCHANGED <<Input, storage, clock, boot, running>>

\* A key event arrives FrameMs.partial after the latest frame instead of
\* with it: performance.now() has advanced when its handler runs.  Outside a
\* schedule this is explored in state playing.
TimePasses ==
    /\ boot = "ready"
    /\ running
    /\ clock = Game.lastFrame
    /\ IF sched # << >>
         THEN Head(sched).ev = "wait"
         ELSE Game.state = "playing" /\ used.events < MaxEvents
    /\ clock' = clock + FrameMs.partial
    /\ KeyUsed
    /\ hist' = [hist EXCEPT !.what = "quiet", !.dirty = FALSE,
                            !.played = IF Game.state = "playing"
                                         THEN @ + FrameMs.partial ELSE @]
    /\ UNCHANGED <<Game, Input, storage, boot, running>>

\* a lifecycle call is made by the shell once init has attached it, outside
\* a schedule and within the bound
OpAllowed ==
    /\ boot = "ready"
    /\ sched = << >>
    /\ used.events < MaxEvents

OpUsed == used' = [used EXCEPT !.events = @ + 1]

Frames(n) == Step("frame", "none", n)

\* Level 0: hold left, dive to the ground, slide off the left end of the
\* ground (no tile lies beyond column 0) and fall.
SlideOffLeftEnd ==
    <<Step("down", "left", 1), Frames(2), Step("down", "down", 1), Frames(23)>>

\* Level 0, holding right: jump the spikes of columns 2 and 13, come down
\* on the bounce pad of column 20, jump through the coin of column 29 and
\* walk into the flag.
RunLevel0 ==
    <<Frames(13), Step("down", "right", 1), Frames(3), Step("jump", "up", 1),
      Frames(81), Step("jump", "up", 1), Frames(42), Step("jump", "up", 1),
      Frames(35), Step("jump", "up", 1), Frames(118)>>

\* Level 2, holding right: dive into the breakable tile of column 13, jump
\* the spike of column 16, jump through the coin of column 22 and walk
\* into the spike of column 27.
BreakCollectDie ==
    <<Frames(13), Step("down", "right", 1), Frames(68), Step("jump", "up", 1),
      Frames(25), Step("down", "down", 1), Frames(4), Step("up", "down", 1),
      Frames(12), Step("jump", "up", 1), Frames(43), Step("jump", "up", 1),
      Frames(55)>>

\* Level 1: stand at the spawn while the moving hazard of column 9 runs to
\* an end of its patrol (48 ticks at speed 2.5, 60 at speed 2) and turns.
WatchHazard == <<Frames(62)>>

\* Level 2, holding right: jump into the left side of the platform of
\* columns 11..14 and, held against it in the air, jump again.
WallJump ==
    <<Frames(13), Step("down", "right", 1), Frames(51), Step("jump", "up", 1),
      Frames(24), Step("jump", "up", 1), Frames(2)>>

\* RunLevel0 with a pause: during the first jump p is pressed 5 ms after a
\* frame, two frames come while paused, and p is pressed again.
RunLevel0Paused ==
    <<Frames(13), Step("down", "right", 1), Frames(3), Step("jump", "up", 1),
      Frames(10), Step("wait", "none", 1), Step("pause", "p", 1), Frames(2),
      Step("pause", "p", 1),
      Frames(71), Step("jump", "up", 1), Frames(42), Step("jump", "up", 1),
      Frames(35), Step("jump", "up", 1), Frames(118)>>

\* Level 8, holding right: slide along the ground with down held until
\* the slide has ended and begun again, jump onto the breakable tile of
\* column 9, and slide off its far end with down held.
SlideTwice ==
    <<Frames(13), Step("down", "right", 1), Frames(7), Step("down", "down", 1),
      Frames(16), Step("up", "down", 1), Frames(22), Step("jump", "up", 1),
      Frames(16), Step("down", "down", 1), Frames(16)>>

\* The last level: the first frame of an attempt.
\* Level 5, holding right: jump the spike of column 12, jump through the
\* coin of column 18, and jump onto the spike of column 37 so as to come
\* down on it with the right edge in the flag's column 38.
DieAtTheFlag ==
    <<Frames(13), Step("down", "right", 1), Frames(75), Step("jump", "up", 1),
      Frames(55), Step("jump", "up", 1), Frames(145), Step("jump", "up", 1),
      Frames(34)>>

\* Level 49, in place: a jump request early in the fall from the spawn
\* (the buffer runs out before the landing of frame 13), a jump from the
\* ground, a request five ticks before the landing of frame 53 (the buffer
\* is at 0.95 on landing), a jump from the ground and a request three
\* ticks before the landing of frame 94.
BufferedJumps ==
    <<Frames(2), Step("jump", "up", 1), Frames(12), Step("jump", "up", 1),
      Frames(33), Step("jump", "up", 1), Frames(8), Step("jump", "up", 1),
      Frames(35), Step("jump", "up", 1), Frames(6)>>

\* the input schedules of a level
Schedules(idx) ==
    IF idx = 0 THEN {SlideOffLeftEnd, RunLevel0, RunLevel0Paused}
    ELSE IF idx = 1 THEN {WatchHazard}
    ELSE IF idx = 2 THEN {BreakCollectDie, WallJump}
    ELSE IF idx = 5 THEN {DieAtTheFlag}
    ELSE IF idx = 8 THEN {SlideTwice}
    ELSE IF idx = 49 THEN {BufferedJumps}
    ELSE {}

\* levels 5, 8 and 49 are started to play their schedules only
ScheduledOnly == {5, 8, 49}

Unscheduled(index) == IF index \in ScheduledOnly THEN {} ELSE {<< >>}

\* a schedule is played from the start of a run only, and counts as an
\* event of the bound
ScheduleChoices(index) ==
    IF used = NothingUsed /\ index \in 0..(totalLevels - 1)
      THEN Unscheduled(index) \cup Schedules(index)
      ELSE Unscheduled(index)

\* startLevel(index): the play button (index 0) and the level buttons
StartLevel(index) ==
    /\ OpAllowed
    /\ \E rnd \in DrawsFor(IF index \in 0..(totalLevels - 1) THEN index ELSE 0) :
         Game' = startGame(Game, index, rnd, clock)
    /\ \E sc \in ScheduleChoices(index) :
          /\ sched' = sc
          /\ used' = [used EXCEPT !.events = @ + (IF sc = << >> THEN 1 ELSE 2)]
    /\ Started(IF index \in 0..(totalLevels - 1) THEN "start" ELSE "clamped")
    /\ UNCHANGED <<Input, storage, clock, boot, running>>

\* resetCurrentLevel(): the two retry buttons
ResetCurrentLevel ==
    /\ OpAllowed
    /\ \E rnd \in DrawsFor(Game.currentLevelIndex) :
         Game' = resetLevel(Game, rnd, clock)
    /\ OpUsed
    /\ Started("retry")
    /\ UNCHANGED <<Input, storage, clock, boot, running, sched>>

\* advanceToNextLevel(): the next-level button
AdvanceToNextLevel ==
    /\ OpAllowed
    /\ \E rnd \in DrawsFor(Min(Game.currentLevelIndex + 1, totalLevels - 1)) :
         Game' = nextLevel(Game, rnd, clock)
    /\ OpUsed
    /\ Started("next")
    /\ UNCHANGED <<Input, storage, clock, boot, running, sched>>

\* togglePause(force): the resume button passes false
TogglePause(forceOff) ==
    /\ OpAllowed
    /\ Game' = togglePause(Game, forceOff, clock)
    /\ OpUsed
    /\ Quiet
    /\ UNCHANGED <<Input, storage, clock, boot, running, sched>>

\* returnToMenu(): the exit and close buttons
ReturnToMenu ==
    /\ OpAllowed
    /\ Game' = exitToMenu(Game)
    /\ OpUsed
    /\ Quiet
    /\ UNCHANGED <<Input, storage, clock, boot, running, sched>>

\* the level-select and skins buttons of the start screen
ShowLevelSelect ==
    /\ OpAllowed
    /\ Game' = showLevelSelect(Game)
    /\ OpUsed
    /\ Quiet
    /\ UNCHANGED <<Input, storage, clock, boot, running, sched>>

ShowSkins ==
    /\ OpAllowed
    /\ Game' = showSkins(Game)
    /\ OpUsed
    /\ Quiet
    /\ UNCHANGED <<Input, storage, clock, boot, running, sched>>

\* a frame is the next step of the schedule (at the nominal interval), or
\* within the bounds
FrameAllowed(dtMs) ==
    IF sched # << >>
      THEN Head(sched).ev = "frame" /\ dtMs = FrameMs.nominal
      ELSE /\ Game.state = "playing" => used.frames < MaxFrames
           /\ Game.state # "playing" => used.idle < MaxIdleFrames
           /\ dtMs # FrameMs.nominal => used.events < MaxEvents

FrameUsed(dtMs) ==
    /\ sched' = IF sched # << >> THEN Advance(sched) ELSE sched
    /\ used' = IF sched # << >> THEN used
               ELSE [used EXCEPT
                       !.frames = IF Game.state = "playing" THEN @ + 1 ELSE @,
                       !.idle   = IF Game.state # "playing" THEN @ + 1 ELSE @,
                       !.events = IF dtMs # FrameMs.nominal THEN @ + 1 ELSE @]

\* the requestAnimationFrame callback: Game.loop(now), now being dtMs after
\* the previous frame.  A frame that throws requests no further frame.
Frame(dtMs) ==
    /\ running
    /\ FrameAllowed(dtMs)
    /\ clock' = Game.lastFrame + dtMs
    /\ \E r \in {loop(Game, Input, storage, Game.lastFrame + dtMs)} :
            /\ IF r.reset
                 THEN \E rnd \in DrawsFor(Game.currentLevelIndex) :
                        Game' = resetLevel(r.game, rnd, Game.lastFrame + dtMs)
                 ELSE Game' = r.game
            /\ storage' = r.item
            /\ running' = ~r.threw
            /\ Input' = IF r.consumed THEN [Input EXCEPT !.jumpRequested = FALSE]
                                      ELSE Input
            /\ Ticked(r)
    /\ FrameUsed(dtMs)
    /\ UNCHANGED boot

Next ==
    \/ GameInit
    \/ \E key \in {"left", "right", "down"} : KeyDown(key)
    \/ \E key \in {"left", "right", "down"} : KeyUp(key)
    \/ KeyJump
    \/ KeyPause
    \/ TimePasses
    \/ \E index \in StartIndices : StartLevel(index)
    \/ ResetCurrentLevel
    \/ AdvanceToNextLevel
    \/ \E forceOff \in {"null", "true", "false"} : TogglePause(forceOff)
    \/ ReturnToMenu
    \/ ShowLevelSelect
    \/ ShowSkins
    \/ \E dtMs \in {FrameMs.nominal, FrameMs.stalled} : Frame(dtMs)

Spec == Init /\ [][Next]_vars

-----------------------------------------------------------------------------
(* Properties.                                                             *)

\* a frame in which Player.update ran
WorldTicks == {"none", "coin", "die", "win"}

CollectedCoins(lv) == Cardinality({i \in DOMAIN lv.coins : lv.coins[i].collected})

\* the tiles the player's bottom edge rests on
TilesUnderFeet(g) ==
    LET pl  == g.player
        row == (pl.y + pl.height) \div tileSize
    IN IF row \in 0..(g.level.rows - 1)
         THEN {g.level.map[row][c] :
                 c \in {cc \in (pl.x \div tileSize)..((pl.x + pl.width - Fx(1)) \div tileSize) :
                          cc \in 0..(g.level.cols - 1)}}
         ELSE {}

\* the latest tick brought the player down onto a bounce tile
LandedOnBounce ==
    /\ hist.what \in {"none", "coin"}
    /\ Game.player.onGround
    /\ "B" \in TilesUnderFeet(Game)

\* C1: sliding and dive are never both set on the player.
C1_SlideDiveExclusive ==
    HasPlayer(Game) => ~(Game.player.sliding /\ Game.player.dive)

\* C2: a tick in which the player comes down onto a bounce tile leaves the
\* player with velY = -13.5 (1.5 * jumpForce, upward) and dive cleared.
C2_BounceLaunches ==
    LandedOnBounce =>
        /\ Game.player.velY = -((jumpForce * 3) \div 2)
        /\ ~Game.player.dive

\* C3: after every tick the player's horizontal speed is at most 5.5.
C3_SpeedCap ==
    HasPlayer(Game) => Abs(Game.player.velX) <= maxSpeed

\* C4: after every tick the player's vertical velocity is at most 15.
C4_FallSpeedCap ==
    HasPlayer(Game) => Game.player.velY <= Fx(15)

\* C4 witness: a tick of a long fall has left velY at the cap.
C4_AtCap ==
    /\ HasPlayer(Game)
    /\ hist.what = "none"
    /\ ~Game.player.onGround
    /\ Game.player.velY = Fx(15)

\* C5: at completion the per-attempt coin count is the number of coins the
\* attempt collected.
C5_SessionCoinsCounted ==
    Game.state = "complete" =>
        Game.sessionCoins = CollectedCoins(Game.level)

\* C5 witness: a level completed with two coins collected.
C5_CompletedWithCoins ==
    /\ Game.state = "complete"
    /\ hist.what = "win"
    /\ CollectedCoins(Game.level) = 2

\* C6: the tick that raises won sets state complete, adds the per-attempt
\* coins to the persisted total and saves; and once a level is completed no
\* world tick runs until a level is started.
C6_CompletionEndsAttempt ==
    [][/\ hist'.what = "win" =>
            /\ Game'.state = "complete"
            /\ Game'.coins = Game.coins + Game.sessionCoins
            /\ storage' = saveProgress(Game')
       /\ hist.finished => hist'.what \notin WorldTicks]_vars

\* C7: the tick that raises died leaves the session playing the same level
\* with a fresh player at the spawn point and a per-attempt coin count of 0;
\* the persisted total, the best times and the saved item are unchanged.
C7_DeathRestarts ==
    [][hist'.what = "die" =>
          /\ Game'.state = "playing"
          /\ Game'.currentLevelIndex = Game.currentLevelIndex
          /\ Game'.player.x = Game'.level.spawnX
          /\ Game'.player.y = Game'.level.spawnY - tileSize
          /\ Game'.player.height = baseHeight
          /\ Game'.player.velX = 0 /\ Game'.player.velY = 0
          /\ ~Game'.player.onGround /\ ~Game'.player.onWall
          /\ ~Game'.player.sliding /\ ~Game'.player.dive
          /\ Game'.player.slideTimer = 0
          /\ Game'.player.coyoteTimer = 0 /\ Game'.player.jumpBuffer = 0
          /\ Game'.sessionCoins = 0
          /\ Game'.coins = Game.coins
          /\ Game'.bestTimes = Game.bestTimes
          /\ storage' = storage]_vars

\* C7 witness: a death in an attempt that had collected a coin, with a
\* persisted total of 25.
C7_DiedWithCoins ==
    /\ hist.what = "die"
    /\ hist.dirty
    /\ Game.state = "playing"
    /\ Game.sessionCoins = 0
    /\ Game.coins = 25

\* C8: right after a reset, by retry or by death, the Level's tile grid is
\* the parsed template and no coin is collected.
C8_ResetRestoresLevel ==
    hist.what \in {"retry", "die"} =>
        Pristine(Game.level, Game.currentLevelIndex)

\* C8 witness: a reset that discarded a Level with a broken tile and a
\* collected coin.
C8_ResetOfDirtyLevel ==
    /\ hist.what \in {"retry", "die"}
    /\ hist.dirty
    /\ Game.currentLevelIndex = 2
    /\ Game.level.map[9][13] = "X"
    /\ ~Game.level.coins[2].collected

\* C9: once Game.init has started the frame loop, a frame callback stays
\* pending whatever lifecycle operations are called.
C9_LoopNeverHalts ==
    boot = "ready" => running

\* C10: Game.init with an unparseable save falls back to the defaults (no
\* coins, no best times, only the first skin) and starts the frame loop.
C10_BadSaveFallsBack ==
    (boot # "load" /\ storage = BadItem /\ used = NothingUsed /\ clock = 0) =>
        /\ boot = "ready"
        /\ running
        /\ Game.coins = 0
        /\ Game.bestTimes = << >>
        /\ Game.skins = defaultSkins

\* the cells of each generated layout that hold a static hazard
hazardTiles ==
    [index \in 0..(totalLevels - 1) |->
        {rc \in (0..(genHeight - 1)) \X (0..(genWidth - 1)) :
            levels[index][rc[1]][rc[2]] = "S"}]

\* C15: once Game.init has built the levels, for every index 0..49 the
\* generated layout holds exactly 2 + floor(index / 10) static hazard tiles,
\* all of them on the row directly above the ground row.
C15_HazardCount ==
    boot = "ready" =>
        \A index \in 0..(totalLevels - 1) :
            /\ Cardinality(hazardTiles[index]) = 2 + (index \div 10)
            /\ \A rc \in hazardTiles[index] : rc[1] = genHeight - 2

\* the number of coins of the Level parsed from each generated layout
coinCounts == [index \in 0..(totalLevels - 1) |-> Len(parsedLevels[index].coins)]

\* C16: for every index 0..49 the Level parsed from the generated layout
\* has exactly 3 coins, and so has the Level of every attempt.
C16_ThreeCoins ==
    /\ \A index \in 0..(totalLevels - 1) : coinCounts[index] = 3
    /\ HasLevel(Game) => Len(Game.level.coins) = 3

\* C16 witness: an attempt at level 1, whose layout has a moving hazard on
\* the row of the coins, has three coins and the hazard.
C16_CoinsBesideMovingHazard ==
    /\ HasLevel(Game)
    /\ Game.currentLevelIndex = 1
    /\ Len(Game.level.hazards) = 1
    /\ Len(Game.level.coins) = 3
    /\ \A i \in 1..3 : Game.level.coins[i].y = Game.level.hazards[1].y + tileSize \div 2

\* hazard hz lies within its patrol
InPatrol(hz) == hz.baseX - hz.range <= hz.x /\ hz.x <= hz.baseX + hz.range

\* a frame in which Player.update ran and the Level was not replaced
SameLevelTicks == {"none", "coin", "win"}

\* C18: every moving hazard stays within [baseX - range, baseX + range];
\* a tick flips its direction exactly when the advanced position
\* x + dir * speed would pass an end of the patrol, and then leaves it at
\* that end.
C18_HazardPatrol ==
    [][/\ HasLevel(Game') => \A i \in DOMAIN Game'.level.hazards :
                                 InPatrol(Game'.level.hazards[i])
       /\ (hist'.what \in SameLevelTicks) =>
             \A i \in DOMAIN Game.level.hazards :
                \E hz \in {Game.level.hazards[i]} :
                \E to \in {Game'.level.hazards[i]} :
                \E nx \in {hz.x + hz.dir * hz.speed} :
                    /\ to.baseX = hz.baseX /\ to.range = hz.range
                    /\ to.speed = hz.speed /\ to.y = hz.y
                    /\ nx < hz.baseX - hz.range =>
                          to.x = hz.baseX - hz.range /\ to.dir = -hz.dir
                    /\ nx > hz.baseX + hz.range =>
                          to.x = hz.baseX + hz.range /\ to.dir = -hz.dir
                    /\ InPatrol([hz EXCEPT !.x = nx]) =>
                          to.x = nx /\ to.dir = hz.dir]_vars

\* C18 witness: the tick in which a hazard that moved right was stopped at
\* the right end of its patrol and turned.
C18_TurnedAtEnd ==
    /\ hist.what = "none"
    /\ HasLevel(Game)
    /\ Game.level.hazards # << >>
    /\ Game.level.hazards[1].x = Game.level.hazards[1].baseX + Game.level.hazards[1].range
    /\ Game.level.hazards[1].dir = -1

\* a step that replaced the Level by a new one
NewLevelSteps == {"start", "clamped", "retry", "next", "die"}

\* C14: within one Level instance the collected flag of a coin only changes
\* from false to true: a coin that is collected stays collected until the
\* Level is replaced.
C14_CoinsStayCollected ==
    [][(HasLevel(Game) /\ HasLevel(Game') /\ hist'.what \notin NewLevelSteps) =>
          /\ DOMAIN Game'.level.coins = DOMAIN Game.level.coins
          /\ \A i \in DOMAIN Game.level.coins :
                Game.level.coins[i].collected => Game'.level.coins[i].collected]_vars

\* C14 witness: a tick that collected nothing has left a coin of an earlier
\* tick collected, with the player away from it.
C14_KeptAfterLeaving ==
    /\ hist.what = "none"
    /\ HasLevel(Game)
    /\ \E i \in DOMAIN Game.level.coins :
          /\ Game.level.coins[i].collected
          /\ Abs(Game.player.x + Game.player.width \div 2 - Game.level.coins[i].x) > tileSize

\* what a tick of the world may change: the player, the Level (tile grid,
\* coins, hazards) and the per-attempt coin count
World(g) == [player |-> g.player, level |-> g.level, sessionCoins |-> g.sessionCoins]

\* C12: while the session is paused, frames (and every other step that
\* does not start a level, the pausing and the resuming step included)
\* leave the player, the tile grid, the coin flags, the hazards and the
\* per-attempt coin count unchanged: the world at resume is the world at
\* pause.
C12_PausedWorldFrozen ==
    [][((Game.state = "paused" \/ Game'.state = "paused")
            /\ hist'.what \notin {"start", "clamped", "retry", "next"}) =>
          World(Game') = World(Game)]_vars

\* C12 witness: a frame has run in state paused, on a level whose moving
\* hazard is under way and with the player in the air.
C12_FrameWhilePaused ==
    /\ Game.state = "paused"
    /\ hist.what = "idle"
    /\ HasLevel(Game)
    /\ Game.level.hazards # << >>
    /\ Game.level.hazards[1].x # Game.level.hazards[1].baseX
    /\ ~Game.player.onGround
    /\ Game.player.velY > 0

\* the best time of level index changed, or was first set, in the step
BestTimeWritten(index) ==
    \/ index \in DOMAIN Game'.bestTimes /\ index \notin DOMAIN Game.bestTimes
    \/ /\ index \in DOMAIN Game'.bestTimes /\ index \in DOMAIN Game.bestTimes
       /\ Game'.bestTimes[index] # Game.bestTimes[index]

\* C13: once the save is loaded, the best time of a level never increases
\* and is never removed; it is written only by a completion of that level,
\* with that completion's finish time, and when a best time exists only
\* with a strictly smaller one.
C13_BestTimeOnlyImproves ==
    [][boot # "load" =>
         /\ \A index \in DOMAIN Game.bestTimes :
               /\ index \in DOMAIN Game'.bestTimes
               /\ Game'.bestTimes[index] <= Game.bestTimes[index]
         /\ \A index \in DOMAIN Game'.bestTimes :
               BestTimeWritten(index) =>
                  /\ hist'.what = "win"
                  /\ Game.currentLevelIndex = index
                  /\ Game'.bestTimes[index] = clock' - Game.levelStartTime]_vars

\* C13 witness: a completion of level 0 in less than the saved best time
\* of 6 s has replaced it, with the saved best time of level 1 in place.
C13_Improved ==
    /\ hist.what = "win"
    /\ Game.currentLevelIndex = 0
    /\ DOMAIN Game.bestTimes = {0, 1}
    /\ Game.bestTimes[0] = clock - Game.levelStartTime
    /\ Game.bestTimes[0] < 6000
    /\ Game.bestTimes[1] = 900
    /\ storage = saveProgress(Game)

\* C20: when Player.update reaches the jump with the jump buffer active,
\* the coyote timer expired and the wall flag set with wallDir = d, it
\* performs a wall jump: velX = -d * 4.4, velY = -8.1, wall flag and jump
\* buffer cleared (and the tick ends with the buffer at 0 and the gravity of
\* the tick added to velY, unless a collision zeroes a velocity).  With
\* the coyote timer still positive it performs the full jump instead:
\* velY = -9, velX untouched.
C20_WallJump ==
    [][(hist'.what \in SameLevelTicks) =>
         \E p \in {beforeJump(Game.player, Input, frameDt(clock' - Game.lastFrame))} :
         \E q \in {jumpStep(p)} :
            /\ (p.jumpBuffer > 0 /\ p.coyoteTimer <= 0 /\ p.onWall) =>
                  /\ q.velX = -p.wallDir * 440
                  /\ q.velY = -810
                  /\ ~q.onWall
                  /\ q.jumpBuffer = 0
                  /\ Game'.player.jumpBuffer = 0
                  /\ Game'.player.velY \in {gravity - 810, 0}
                  /\ Game'.player.velX \in {-p.wallDir * 440, 0}
            /\ (p.jumpBuffer > 0 /\ p.coyoteTimer > 0) =>
                  /\ q.velX = p.velX
                  /\ q.velY = -Fx(9)
                  /\ ~q.onGround
                  /\ q.onWall = p.onWall
                  /\ q.jumpBuffer = 0 /\ q.coyoteTimer = 0
                  /\ Game'.player.jumpBuffer = 0
                  /\ Game'.player.velY \in {gravity - Fx(9), 0}]_vars

\* C20 witness: the tick after a wall jump off a wall on the right, taken
\* in the air.
C20_JumpedOffWall ==
    /\ hist.what = "none"
    /\ HasPlayer(Game)
    /\ Game.player.velX = -440
    /\ Game.player.velY = gravity - 810
    /\ ~Game.player.onGround
    /\ ~Game.player.onWall
    /\ Game.player.coyoteTimer <= 0
    /\ Game.player.jumpBuffer = 0

\* the finish time Game.completeLevel computes in the winning tick
finishTime == clock - Game.levelStartTime

\* C11: the finish time of a completion equals the time spent in state
\* playing since the level was started, whatever pauses lie between.
C11_FinishTimeIsPlayingTime ==
    hist.what = "win" => finishTime = hist.played

\* the player's bottom edge
Bottom(pl) == pl.y + pl.height

\* the tick starts a slide: on the ground, down held, not sliding, and
\* faster than 2 once the tick's horizontal input is applied
SlideDue ==
    \E p \in {horizontal(Game.player, Input)} :
        p.onGround /\ Input.down /\ ~p.sliding /\ Abs(p.velX) > Fx(2)

\* the tick ends a slide with down held: its timer ran out
SlideTimedOut == Game.player.sliding /\ ~Game'.player.sliding /\ Input.down

\* C19 as stated: a tick that finds the player on the ground with
\* |velX| > 2 and down held starts a slide, the height is 20 and the bottom
\* edge is unchanged; with down held the slide ends on its 15th tick (at
\* the nominal frame interval), the height is 40 again and the bottom
\* edge is where it was just before the slide started.
C19_SlideRestoresBottom ==
    [][(hist'.what \in SameLevelTicks) =>
         /\ SlideDue =>
               /\ Game'.player.sliding
               /\ Game'.player.height = baseHeight \div 2
               /\ Bottom(Game'.player) = Bottom(Game.player)
         /\ SlideTimedOut =>
               /\ Game'.player.height = baseHeight
               /\ hist'.slide.stalled \/ hist'.slide.ticks = 15
               /\ Bottom(Game'.player) = hist'.slide.from]_vars

\* C19, amended: the same, the bottom edge being unchanged when the player
\* has been on the ground after every tick of the slide.
C19_GroundedSlideRestoresBottom ==
    [][(hist'.what \in SameLevelTicks) =>
         /\ SlideDue =>
               /\ Game'.player.sliding
               /\ Game'.player.height = baseHeight \div 2
               /\ Game'.player.onGround => Bottom(Game'.player) = Bottom(Game.player)
         /\ SlideTimedOut =>
               /\ Game'.player.height = baseHeight
               /\ hist'.slide.stalled \/ hist'.slide.ticks = 15
               /\ hist'.slide.grounded => Bottom(Game'.player) = hist'.slide.from]_vars

\* C19 witness: a slide along the ground has ended on its 15th tick with
\* down still held, the height back at 40 and the bottom edge where it was.
C19_SlideRanOut ==
    /\ hist.what = "none"
    /\ HasPlayer(Game)
    /\ Input.down
    /\ ~Game.player.sliding
    /\ hist.slide.ticks = 15
    /\ hist.slide.grounded
    /\ Game.player.height = baseHeight
    /\ Bottom(Game.player) = hist.slide.from

\* the values of togglePause's force argument
ForceValues == {"null", "true", "false"}

\* C27: togglePause, whatever its force argument, changes the session state
\* only between playing and paused; called in menu, levelSelect, skins or
\* complete it leaves the state as it is.
C27_TogglePauseOnlyPauses ==
    boot = "ready" =>
        \A forceOff \in ForceValues :
            Game.state \notin {"playing", "paused"} =>
                togglePause(Game, forceOff, clock).state = Game.state

\* C21: startLevel with an index outside 0..49 starts level 0 and enters
\* playing, and the current level index is within 0..49 in every state,
\* also after advanceToNextLevel from the last level.
C21_IndexClamped ==
    /\ Game.currentLevelIndex \in 0..(totalLevels - 1)
    /\ hist.what = "clamped" =>
          /\ Game.state = "playing"
          /\ Game.currentLevelIndex = 0
          /\ Pristine(Game.level, 0)
          /\ Game.player.x = Game.level.spawnX
          /\ Game.player.y = Game.level.spawnY - tileSize
          /\ Game.sessionCoins = 0
    /\ (boot = "ready" /\ Game.currentLevelIndex = totalLevels - 1) =>
          \A rnd \in Draws :
              nextLevel(Game, rnd, clock) = exitToMenu(Game)

\* C21 witness: startLevel with an index outside 0..49 has just started
\* level 0.
C21_StartedClamped ==
    /\ hist.what = "clamped"
    /\ Game.state = "playing"
    /\ Game.currentLevelIndex = 0
    /\ HasLevel(Game)

(* C29: horizontal extent *)

\* C29 as stated: in every state of play on a generated level the player's
\* box lies within the level's horizontal extent,
\* 0 <= x <= cols * tileSize - width.
C29_PlayerInsideLevel ==
    (Game.state = "playing" /\ HasLevel(Game) /\ HasPlayer(Game)) =>
        /\ 0 <= Game.player.x
        /\ Game.player.x <= Game.level.cols * tileSize - Game.player.width

(* C28: wall contact *)

\* a blocking tile (solid, breakable or bounce) at column tx, row ty
Blocking(lv, tx, ty) ==
    /\ ty \in 0..(lv.rows - 1)
    /\ tx \in 0..(lv.cols - 1)
    /\ isSolid(lv.map[ty][tx])

\* the column immediately beside the body on the side wallDir
ColumnBeside(pl) ==
    IF pl.wallDir > 0 THEN (pl.x + pl.width) \div tileSize
                      ELSE (pl.x \div tileSize) - 1

\* C28 as stated: when onWall is set, the body touches the column beside
\* it on the side wallDir and a blocking tile lies in that column in at
\* least one row the corrected box occupies (so a landing on flat ground
\* with no wall beside leaves onWall unset).
C28_WallBesideWhenOnWall ==
    (HasLevel(Game) /\ HasPlayer(Game) /\ Game.player.onWall) =>
        /\ Game.player.wallDir \in {-1, 1}
        /\ \E ty \in (Game.player.y \div tileSize) ..
                     ((Game.player.y + Game.player.height - Fx(1)) \div tileSize) :
              Blocking(Game.level, ColumnBeside(Game.player), ty)

(* C23: the tile grid *)

\* the player as Player.update hands it to level.collide in the frame
\* being taken has the dive flag set and is moving down
DivingAtCollide ==
    \E p \in {applyGravity(jumpStep(beforeJump(Game.player, Input,
                                               frameDt(clock' - Game.lastFrame))))} :
        p.dive /\ p.velY > 0

\* the cells of the grid that differ between two Levels
ChangedTiles(from, to) ==
    {t \in (0..(genHeight - 1)) \X (0..(genWidth - 1)) :
        from.map[t[1]][t[2]] # to.map[t[1]][t[2]]}

\* the player's box overlaps a breakable tile of the grid
InsideBreakable(g) ==
    \E ty \in (g.player.y \div tileSize) ..
              ((g.player.y + g.player.height - Fx(1)) \div tileSize),
       tx \in (g.player.x \div tileSize) ..
              ((g.player.x + g.player.width - Fx(1)) \div tileSize) :
        /\ ty \in 0..(g.level.rows - 1)
        /\ tx \in 0..(g.level.cols - 1)
        /\ g.level.map[ty][tx] = "X"

\* C23: while a Level instance lives, a step changes its grid only by
\* turning breakable tiles into empty ones, and only in a tick whose
\* player reaches the collision with the dive flag set and velY > 0; no
\* tile becomes breakable or solid again, and the player's box never
\* enters a breakable tile that is still there.
C23_OnlyDiveBreaksTiles ==
    [][(HasLevel(Game) /\ HasLevel(Game') /\ hist'.what \notin NewLevelSteps) =>
         /\ \/ Game'.level.map = Game.level.map
            \/ /\ hist'.what \in SameLevelTicks
               /\ DivingAtCollide
               /\ \A t \in ChangedTiles(Game.level, Game'.level) :
                     /\ Game.level.map[t[1]][t[2]] = "X"
                     /\ Game'.level.map[t[1]][t[2]] = " "
         /\ ~InsideBreakable(Game')]_vars

\* C23 witness: a tick has just broken a breakable tile of the level
C23_TileBroken ==
    /\ hist.what \in SameLevelTicks
    /\ HasLevel(Game)
    /\ \E t \in (0..(genHeight - 1)) \X (0..(genWidth - 1)) :
          /\ templateMaps[Game.currentLevelIndex][t[1]][t[2]] = "X"
          /\ Game.level.map[t[1]][t[2]] = " "

(* C24: the dive *)

\* C24: in a tick that keeps the level, a dive flag that was set is still
\* set unless the tick leaves the player on the ground; the dive forces
\* velY (to 12, before gravity) only when it has not done so since the
\* player was last on the ground, whether or not down is still held; and
\* while the player has stayed in the air since the dive the flag is set.
C24_DiveOncePerAirbornePeriod ==
    [][(hist'.what \in SameLevelTicks) =>
         /\ (Game.player.dive /\ ~Game'.player.dive) => Game'.player.onGround
         /\ DiveForced(Game.player, Input) =>
               /\ ~hist.dived
               /\ diveStart(Game.player, Input).velY = Fx(12)
               /\ Game'.player.dive \/ Game'.player.onGround
         /\ hist'.dived => Game'.player.dive]_vars

\* C24 witness: the player is still in the air with the dive flag set and
\* down held, at least one tick after the tick whose dive forced velY
C24_StillDiving ==
    /\ hist.what \in SameLevelTicks
    /\ HasPlayer(Game)
    /\ hist.dived
    /\ Game.player.dive
    /\ ~Game.player.onGround
    /\ Input.down
    /\ Game.player.velY > Fx(12) + gravity

(* C26 and C25: coyote time and the jump buffer *)

\* the frame being taken makes the normal jump
FullJumpNow == FullJump(Game.player, Input, clock' - Game.lastFrame)

JustLanded == Game.player.onGround /\ hist.since > 0

\* C25 as stated: with no new key press, the tick after a landing with the
\* jump buffer still positive makes a full jump, and a tick that finds
\* the buffer run out makes none.
C25_BufferedJumpOnLanding ==
    [][(hist'.what \in SameLevelTicks /\ ~Input.jumpRequested) =>
         /\ (JustLanded /\ Game.player.jumpBuffer > 0) => FullJumpNow
         /\ Game.player.jumpBuffer <= 0 => ~FullJumpNow]_vars

(* C22: death and win in one tick *)

\* C22: a frame whose collision raises both die and win is a death: the
\* level is reset and the session stays in playing, and nothing of a
\* completion is recorded (best times, coin total and the saved item are
\* unchanged, and the session's coins are dropped).
C22_DeathBeforeWin ==
    [][(hist'.what \in WorldTicks /\ hist'.both) =>
         /\ hist'.what = "die"
         /\ Game'.state = "playing"
         /\ Game'.currentLevelIndex = Game.currentLevelIndex
         /\ Pristine(Game'.level, Game.currentLevelIndex)
         /\ Game'.player.x = Game'.level.spawnX
         /\ Game'.player.y = Game'.level.spawnY - tileSize
         /\ Game'.currentTime = 0
         /\ Game'.bestTimes = Game.bestTimes
         /\ Game'.coins = Game.coins
         /\ Game'.sessionCoins = 0
         /\ storage' = storage
         /\ ~hist'.finished]_vars

\* C22 witness: a frame has just raised die and win together, with a coin
\* collected in the attempt it ended, and the level has been reset
C22_DiedAtTheFlag ==
    /\ hist.both
    /\ hist.what = "die"
    /\ hist.dirty
    /\ Game.state = "playing"
    /\ Game.currentLevelIndex = 5
    /\ Game.sessionCoins = 0

=============================================================================
